---- MODULE Spec2Model ----
(***************************************************************************)
(* SocraticEngine: the knowledge-graph store (lib/knowledge-graph), the    *)
(* prompt builder (lib/prompts), the /api/socratic route handler and the   *)
(* session reducer / provider (context/SessionContext).                    *)
(*                                                                         *)
(* Optional values (T | undefined, T | null) are sequences of length at    *)
(* most one: <<>> is undefined/null, <<v>> is the value v.                 *)
(***************************************************************************)
EXTENDS Integers, Sequences, FiniteSets, TLC

VARIABLES
    messages,              \* SessionState.messages
    conversationHistory,   \* SessionState.conversationHistory
    knowledgeGraph,        \* SessionState.knowledgeGraph
    whiteboardInstruction, \* SessionState.whiteboardInstruction
    isLoading,             \* SessionState.isLoading
    error,                 \* SessionState.error (string | null)
    microDrillActive,      \* SessionState.microDrillActive
    microDrillTopic,       \* SessionState.microDrillTopic (string | null)
    isStreaming,           \* SessionState.isStreaming
    inflight,              \* the sendMessage calls suspended at `await fetch`
    stored,                \* localStorage[STORAGE_KEY] (absent or the JSON text of a graph)
    mounted,               \* SessionProvider: the effects of the first render have run
    quotaExceeded,         \* environment: localStorage.setItem throws (storage is full)
    now,                   \* the value Date.now() returns next
    afterReset,            \* history: per in-flight request, was the session reset since its dispatch
    incorrectRun,          \* history: incorrect records applied since the last correct record, dismissal or reset
    prev,                  \* history: the knowledge graph before the last store operation
    last,                  \* history: the last store operation and its inputs
    expression,            \* GraphVisualization: config.expression (parsed)
    evaluator,             \* GraphVisualization: fn, the result of createEvaluator
    samples,               \* GraphCanvas: the values fn takes at the sample points
    path,                  \* GraphCanvas: the commands of the path generatePath returned
    display,               \* GraphVisualization: the props of its last render, renders and effects so far
    animator,              \* the mounted LimitViz, DerivativeViz or IntegralViz and its state value
    timers,                \* the intervals set and not cleared, with what their callbacks close over
    ticked                 \* history: the last timer callback that ran

vars == <<messages, conversationHistory, knowledgeGraph, whiteboardInstruction,
          isLoading, error, microDrillActive, microDrillTopic, isStreaming,
          inflight, stored, mounted, quotaExceeded, now, afterReset, incorrectRun, prev, last,
          expression, evaluator, samples, path, display, animator, timers, ticked>>

sessionVars == <<messages, conversationHistory, whiteboardInstruction, isLoading,
                 error, microDrillActive, microDrillTopic, isStreaming, inflight,
                 stored, mounted, quotaExceeded, afterReset, incorrectRun>>

animVars == <<display, animator, timers, ticked>>

graphVars == <<expression, evaluator, samples, path, display, animator, timers, ticked>>

-----------------------------------------------------------------------------
(* Bounds of the model *)

\* store operations performed after Init in SpecKG
MaxKGSteps == 2

\* the number of store operations in a behaviour of SpecErrors
ErrorSteps == 3

\* the renders of GraphVisualization with new props in a behaviour of SpecAnim
MaxRenders == 2

\* submissions accepted in one behaviour of SpecLive
LiveTurns == 3

\* submissions accepted in one behaviour of Spec (the clock ticks once per settled fetch)
MaxTurns == 3

\* submissions accepted in one behaviour of SpecReveal
RevealTurns == 4

\* the turns SpecPersist takes after the provider is mounted
PersistTurns == 2

\* the turns SpecWindow takes after its run of failed turns
WindowTurns == 2

\* the number of steps generatePath samples the curve with (300 in GraphCanvas)
PathSteps == 3

-----------------------------------------------------------------------------
(* Program constants *)

\* errorHistory.slice(-49) followed by one record: at most 50 entries
HISTORY_KEEP == 49

\* existing.lastErrors.slice(-4) followed by one kind: at most 5 entries
LAST_ERRORS_KEEP == 4

\* getErrorFrequency of the store: kg.errorHistory.slice(-30)
FREQ_WINDOW == 30

\* dominant-error / drill threshold: count >= 3
DRILL_THRESHOLD == 3

\* default confidenceScore of a topic seen for the first time
DEFAULT_CONFIDENCE == 50

\* mastered when newScore >= 85 and the answer is correct
MASTERY_SCORE == 85

\* shouldReveal = attemptCount >= 3
REVEAL_ATTEMPTS == 3

\* conversationHistory.slice(-20)
HISTORY_WINDOW == 20

\* Math.min(100, ...) and Math.max(0, ...)
SCORE_MAX == 100

SCORE_MIN == 0

-----------------------------------------------------------------------------
(* Types *)

ERROR_TYPES == {"Conceptual Gap", "Arithmetic Error", "Sign Error", "Wrong Theorem",
                "Notation Confusion", "Correct Idea, Wrong Execution", "None"}

NULL == <<>>

Some(v) == <<v>>

Range(s) == {s[i] : i \in 1..Len(s)}

Min(a, b) == IF a <= b THEN a ELSE b

Max(a, b) == IF a >= b THEN a ELSE b

\* Array.prototype.slice(-n) for n > 0: the last n elements
sliceLast(s, n) == IF Len(s) <= n THEN s ELSE SubSeq(s, Len(s) - n + 1, Len(s))

\* Array.from(new Set(s)): first occurrences, in insertion order
RECURSIVE arrayFromSet(_)
arrayFromSet(s) ==
    IF s = <<>> THEN <<>>
    ELSE LET r == arrayFromSet(SubSeq(s, 1, Len(s) - 1))
             x == s[Len(s)]
         IN  IF x \in Range(r) THEN r ELSE Append(r, x)

-----------------------------------------------------------------------------
(* lib/knowledge-graph *)

createInitialKnowledgeGraph ==
    [ topics       |-> [t \in {} |-> 0],
      weakNodes    |-> <<>>,
      errorHistory |-> <<>>,
      sessionStats |-> [ totalAttempts           |-> 0,
                         consecutiveFailures     |-> 0,
                         microDrillsCompleted    |-> 0,
                         currentTopic            |-> "",
                         attemptOnCurrentProblem |-> 0 ] ]

defaultTopicState ==
    [ mastered |-> FALSE, confidenceScore |-> DEFAULT_CONFIDENCE,
      attempts |-> 0, lastErrors |-> <<>> ]

\* mutant: the entry of a known topic is not read
existingTopic_StartsOver(kg, topic) == defaultTopicState

\* next.topics[topic] ?? { mastered: false, confidenceScore: 50, ... }
existingTopic(kg, topic) ==
    IF topic \in DOMAIN kg.topics THEN kg.topics[topic] ELSE defaultTopicState

\* mutant: the upper clamp is lost
clampScore_NoUpperClamp(score, delta) == Max(SCORE_MIN, score + delta)

\* Math.min(100, Math.max(0, existing.confidenceScore + confidence_delta))
clampScore(score, delta) == Min(SCORE_MAX, Max(SCORE_MIN, score + delta))

\* errorType !== 'None' ? [...existing.lastErrors.slice(-4), errorType] : existing.lastErrors
recentErrors(existing, errorType) ==
    IF errorType # "None"
    THEN Append(sliceLast(existing.lastErrors, LAST_ERRORS_KEEP), errorType)
    ELSE existing.lastErrors

\* mutant: the score alone decides, correctness is ignored
masteredAfter_ScoreOnly(mastered, newScore, isCorrect) ==
    IF mastered # NULL THEN mastered[1] ELSE newScore >= MASTERY_SCORE

\* mastered ?? (newScore >= 85 && isCorrect)
masteredAfter(mastered, newScore, isCorrect) ==
    IF mastered # NULL THEN mastered[1] ELSE (newScore >= MASTERY_SCORE /\ isCorrect)

\* mutant: the mastered topic is filtered out before the merge instead of after it
weakNodesAfter_FilterFirst(weakNodes, weak_nodes, topic, nowMastered) ==
    LET kept == IF nowMastered THEN SelectSeq(weakNodes, LAMBDA n : n # topic) ELSE weakNodes
    IN  IF weak_nodes # NULL /\ Len(weak_nodes[1]) > 0
        THEN arrayFromSet(kept \o weak_nodes[1])
        ELSE kept

\* the two weak-node steps: merge through a Set, then filter the mastered topic out
weakNodesAfter(weakNodes, weak_nodes, topic, nowMastered) ==
    LET merged == IF weak_nodes # NULL /\ Len(weak_nodes[1]) > 0
                  THEN arrayFromSet(weakNodes \o weak_nodes[1])
                  ELSE weakNodes
    IN  IF nowMastered THEN SelectSeq(merged, LAMBDA n : n # topic) ELSE merged

\* mutant: slice(-50), one entry too many is kept
errorHistoryAfter_KeepsOneMore(errorHistory, errorType, topic, timestamp) ==
    IF errorType # "None"
    THEN Append(sliceLast(errorHistory, HISTORY_KEEP + 1),
                [type |-> errorType, topic |-> topic, timestamp |-> timestamp])
    ELSE errorHistory

\* errorType !== 'None' => [...errorHistory.slice(-49), record]
errorHistoryAfter(errorHistory, errorType, topic, timestamp) ==
    IF errorType # "None"
    THEN Append(sliceLast(errorHistory, HISTORY_KEEP),
                [type |-> errorType, topic |-> topic, timestamp |-> timestamp])
    ELSE errorHistory

\* mutant: a correct answer does not end the run of failures
sessionStatsAfter_FailuresKept(stats, topic, isCorrect) ==
    [ stats EXCEPT
        !.totalAttempts = @ + 1,
        !.consecutiveFailures = IF isCorrect THEN @ ELSE @ + 1,
        !.currentTopic = topic,
        !.attemptOnCurrentProblem = IF isCorrect THEN 0 ELSE @ + 1 ]

\* mutant: a correct answer resets consecutiveFailures only
sessionStatsAfter_KeepsAttempt(stats, topic, isCorrect) ==
    [ stats EXCEPT
        !.totalAttempts = @ + 1,
        !.consecutiveFailures = IF isCorrect THEN 0 ELSE @ + 1,
        !.currentTopic = topic,
        !.attemptOnCurrentProblem = IF isCorrect THEN @ ELSE @ + 1 ]

sessionStatsAfter(stats, topic, isCorrect) ==
    [ stats EXCEPT
        !.totalAttempts = @ + 1,
        !.consecutiveFailures = IF isCorrect THEN 0 ELSE @ + 1,
        !.currentTopic = topic,
        !.attemptOnCurrentProblem = IF isCorrect THEN 0 ELSE @ + 1 ]

\* mutant: a flag that is set is kept, whatever the update says
applyKnowledgeUpdate_StickyMastery(kg, update, errorType, isCorrect, dateNow) ==
    LET topic    == update.topic
        existing == existingTopic(kg, topic)
        newScore == clampScore(existing.confidenceScore, update.confidence_delta)
        entry    == [ mastered        |-> \/ existing.mastered
                                          \/ masteredAfter(update.mastered, newScore, isCorrect),
                      confidenceScore |-> newScore,
                      attempts        |-> existing.attempts + 1,
                      lastErrors      |-> recentErrors(existing, errorType) ]
    IN  [ topics       |-> [t \in DOMAIN kg.topics \cup {topic} |->
                               IF t = topic THEN entry ELSE kg.topics[t]],
          weakNodes    |-> weakNodesAfter(kg.weakNodes, update.weak_nodes, topic, entry.mastered),
          errorHistory |-> errorHistoryAfter(kg.errorHistory, errorType, topic, dateNow),
          sessionStats |-> sessionStatsAfter(kg.sessionStats, topic, isCorrect) ]

\* applyKnowledgeUpdate(kg, update, errorType, isCorrect); dateNow is Date.now()
applyKnowledgeUpdate(kg, update, errorType, isCorrect, dateNow) ==
    LET topic    == update.topic
        existing == existingTopic(kg, topic)
        newScore == clampScore(existing.confidenceScore, update.confidence_delta)
        entry    == [ mastered        |-> masteredAfter(update.mastered, newScore, isCorrect),
                      confidenceScore |-> newScore,
                      attempts        |-> existing.attempts + 1,
                      lastErrors      |-> recentErrors(existing, errorType) ]
    IN  [ topics       |-> [t \in DOMAIN kg.topics \cup {topic} |->
                               IF t = topic THEN entry ELSE kg.topics[t]],
          weakNodes    |-> weakNodesAfter(kg.weakNodes, update.weak_nodes, topic, entry.mastered),
          errorHistory |-> errorHistoryAfter(kg.errorHistory, errorType, topic, dateNow),
          sessionStats |-> sessionStatsAfter(kg.sessionStats, topic, isCorrect) ]

\* mutant: the drill is not counted
recordMicroDrillCompleted_NoCount(kg) == kg

\* sessionStats.microDrillsCompleted + 1
recordMicroDrillCompleted(kg) ==
    [kg EXCEPT !.sessionStats.microDrillsCompleted = @ + 1]

\* mutant: all the session statistics start over
resetAttemptCounter_AllStats(kg) ==
    [kg EXCEPT !.sessionStats = createInitialKnowledgeGraph.sessionStats]

\* attemptOnCurrentProblem: 0, consecutiveFailures: 0
resetAttemptCounter(kg) ==
    [kg EXCEPT !.sessionStats.attemptOnCurrentProblem = 0,
               !.sessionStats.consecutiveFailures = 0]

\* the count of kind `type` in kg.errorHistory.slice(-30) (absent key = 0)
getErrorFrequency(kg, type) ==
    LET window == sliceLast(kg.errorHistory, FREQ_WINDOW)
    IN  Cardinality({i \in 1..Len(window) : window[i].type = type})

\* mutant: a kind must occur more than three times
shouldTriggerMicroDrill_MoreThanThree(kg) ==
    \E type \in {r.type : r \in Range(sliceLast(kg.errorHistory, FREQ_WINDOW))} :
        getErrorFrequency(kg, type) > DRILL_THRESHOLD

\* Object.values(freq).some((count) => count >= 3); freq has a key per kind in the window
shouldTriggerMicroDrill(kg) ==
    \E type \in {r.type : r \in Range(sliceLast(kg.errorHistory, FREQ_WINDOW))} :
        getErrorFrequency(kg, type) >= DRILL_THRESHOLD

\* Object.entries(freq): the kinds of the window, in the order the loop of
\* getErrorFrequency inserted them
errorFrequencyKeys(kg) ==
    LET window == sliceLast(kg.errorHistory, FREQ_WINDOW)
    IN  arrayFromSet([i \in 1..Len(window) |-> window[i].type])

\* mutant: a later kind with the same count replaces the dominant one
dominantStep_LastTie(acc, type, count) ==
    IF count >= acc.max THEN [max |-> count, dominant |-> Some(type)] ELSE acc

\* if (count > max) { max = count; dominant = type; }
dominantStep(acc, type, count) ==
    IF count > acc.max THEN [max |-> count, dominant |-> Some(type)] ELSE acc

\* the loop of getDominantError over the entries i.. of freq
RECURSIVE dominantLoop(_, _, _, _)
dominantLoop(kg, keys, i, acc) ==
    IF i > Len(keys) \/ acc # acc THEN acc
    ELSE dominantLoop(kg, keys, i + 1,
                      dominantStep(acc, keys[i], getErrorFrequency(kg, keys[i])))

\* getDominantError(kg): ErrorType | null
getDominantError(kg) ==
    LET acc == dominantLoop(kg, errorFrequencyKeys(kg), 1, [max |-> 0, dominant |-> NULL])
    IN  IF acc.max >= DRILL_THRESHOLD THEN acc.dominant ELSE NULL

-----------------------------------------------------------------------------
(* context/SessionContext: the part of the reducer that operates the store *)

\* ENGINE_RESPONSE: isCorrect, updatedKg and finalKg
engineResponseKg(kg, payload, dateNow) ==
    LET isCorrect == payload.error_type = "None"
        updatedKg == applyKnowledgeUpdate(kg, payload.knowledge_update,
                                          payload.error_type, isCorrect, dateNow)
    IN  IF payload.micro_drill THEN recordMicroDrillCompleted(updatedKg) ELSE updatedKg

-----------------------------------------------------------------------------
(* Inputs *)

Topics == {"limits", "chain rule"}

MasteredFlags == {NULL, Some(TRUE), Some(FALSE)}

WeakLists == {NULL, Some(<<>>), Some(<<"limits">>), Some(<<"chain rule", "limits">>)}

INITIAL_WHITEBOARD ==
    [text |-> "Ask me any math question to get started.", visualization_type |-> "none"]

DEFAULT_WHITEBOARD ==
    [text |-> "Waiting for student input...", visualization_type |-> "none"]

Payload(topic, delta, kind, mastered, weak, drill) ==
    [ tutor_response         |-> "What happens near x = 2?",
      error_type             |-> kind,
      micro_drill            |-> drill,
      whiteboard_instruction |-> DEFAULT_WHITEBOARD,
      knowledge_update       |-> [ topic |-> topic, confidence_delta |-> delta,
                                   mastered |-> mastered, weak_nodes |-> weak ] ]

\* the well-typed records the store is driven with in SpecKG
KGPayloads ==
    { Payload(t, d, k, m, w, FALSE) :
        t \in Topics, d \in {-30, 20}, k \in {"None", "Sign Error"},
        m \in MasteredFlags, w \in WeakLists \ {Some(<<>>)} }
    \cup
    { Payload(t, d, k, NULL, NULL, FALSE) :
        t \in Topics, d \in {-120, 120}, k \in {"None", "Sign Error"} }
    \cup
    { Payload(t, -30, "Wrong Theorem", NULL, Some(<<>>), drill) :
        t \in Topics, drill \in BOOLEAN }

\* an earlier run of the store: n incorrect answers, alternating between the topics
ReplayPayload(i) ==
    Payload(IF i % 2 = 1 THEN "limits" ELSE "chain rule",
            IF i % 2 = 1 THEN 20 ELSE -30,
            CASE i % 3 = 0 -> "Sign Error"
              [] i % 3 = 1 -> "Wrong Theorem"
              [] OTHER     -> "Arithmetic Error",
            NULL, NULL, FALSE)

\* kg after the updates i..n of that run (kg = kg forces the value before the next call)
RECURSIVE ReplayFrom(_, _, _)
ReplayFrom(kg, i, n) ==
    IF i > n \/ kg # kg THEN kg
    ELSE ReplayFrom(engineResponseKg(kg, ReplayPayload(i), i), i + 1, n)

Replay(n) == ReplayFrom(createInitialKnowledgeGraph, 1, n)

\* the graphs SpecKG starts from: empty, two errors of different kinds, and one error
\* short of a full history
PreloadLens == {0, 2, HISTORY_KEEP}

NoPayload == Payload("", 0, "None", NULL, NULL, FALSE)

-----------------------------------------------------------------------------
(* Initial state of the session: createInitialState() *)

\* no expression of a visualization has been given, nothing is compiled or drawn
NoExpression == [op |-> "empty", name |-> "", args |-> <<>>]

NotCompiled == [compiled |-> FALSE, fn |-> NULL]

\* the props of GraphVisualization: visualizationType and functionConfig
VizProps(kind, e, approach, x0, a, b) ==
    [ visualizationType |-> kind, expression |-> e, limit_approach |-> approach,
      derivative_point |-> x0, integral_a |-> a, integral_b |-> b ]

\* the props of a whiteboard without a graph
NoProps == VizProps("none", NoExpression, NULL, NULL, NULL, NULL)

\* key={`${visualizationType}-${config.expression}`} of the motion.div
motionKey(props) == <<props.visualizationType, props.expression>>

\* const steps = [4, 8, 16, 32, 64, 0]; 0 = smooth fill
STEPS == <<4, 8, 16, 32, 64, 0>>

\* the state value of an animator: n of IntegralViz, or pointX of LimitViz and h of
\* DerivativeViz, which move from their start towards the point and settle next to it
AnimValue(phase, n) == [phase |-> phase, n |-> n]

NoAnimator ==
    [ kind |-> "none", key |-> motionKey(NoProps), deps |-> <<>>,
      value |-> AnimValue("none", 0), exiting |-> FALSE, inst |-> 0, effect |-> 0 ]

\* there is no graph on the whiteboard: no animator is mounted and no timer runs
AnimIdle ==
    /\ display = [props |-> NoProps, renders |-> 0, effects |-> 0]
    /\ animator = NoAnimator
    /\ timers = {}
    /\ ticked = [id |-> 0, wrote |-> FALSE, current |-> TRUE]

GraphIdle ==
    /\ expression = NoExpression
    /\ evaluator = NotCompiled
    /\ samples = <<>>
    /\ path = NULL
    /\ AnimIdle

SessionInit ==
    /\ messages = <<>>
    /\ conversationHistory = <<>>
    /\ whiteboardInstruction = INITIAL_WHITEBOARD
    /\ isLoading = FALSE
    /\ error = NULL
    /\ microDrillActive = FALSE
    /\ microDrillTopic = NULL
    /\ isStreaming = FALSE
    /\ inflight = <<>>
    /\ afterReset = <<>>
    /\ incorrectRun = 0

-----------------------------------------------------------------------------
(* SpecKG: the store alone, driven through the reducer's three store operations *)

InitKG ==
    /\ SessionInit
    /\ GraphIdle
    /\ mounted = TRUE
    /\ stored = NULL
    /\ quotaExceeded = FALSE
    /\ \E n \in PreloadLens :
          /\ knowledgeGraph = Replay(n)
          /\ now = n + 1
    /\ prev = knowledgeGraph
    /\ last = [op |-> "init", n |-> 0, payload |-> NoPayload]

KGApply ==
    /\ last.n < MaxKGSteps
    /\ \E payload \in KGPayloads :
          /\ knowledgeGraph' = engineResponseKg(knowledgeGraph, payload, now)
          /\ last' = [op |-> "apply", n |-> last.n + 1, payload |-> payload]
    /\ prev' = knowledgeGraph
    /\ now' = now + 1
    /\ UNCHANGED <<sessionVars, graphVars>>

KGDismiss ==
    /\ last.n < MaxKGSteps
    /\ knowledgeGraph' = resetAttemptCounter(knowledgeGraph)
    /\ last' = [op |-> "dismiss", n |-> last.n + 1, payload |-> NoPayload]
    /\ prev' = knowledgeGraph
    /\ UNCHANGED <<now, sessionVars, graphVars>>

KGReset ==
    /\ last.n < MaxKGSteps
    /\ knowledgeGraph' = createInitialKnowledgeGraph
    /\ last' = [op |-> "reset", n |-> last.n + 1, payload |-> NoPayload]
    /\ prev' = knowledgeGraph
    /\ UNCHANGED <<now, sessionVars, graphVars>>

NextKG == KGApply \/ KGDismiss \/ KGReset

SpecKG == InitKG /\ [][NextKG]_vars

-----------------------------------------------------------------------------
(* lib/prompts and app/api/socratic/route *)

\* mutant: reveal mode one attempt early
buildSystemPrompt_RevealEarly(kg) ==
    LET attemptCount == kg.sessionStats.attemptOnCurrentProblem
    IN  [ attemptCount      |-> attemptCount,
          shouldReveal      |-> attemptCount >= REVEAL_ATTEMPTS - 1,
          weakTopics        |-> kg.weakNodes,
          masteredTopics    |-> {t \in DOMAIN kg.topics : kg.topics[t].mastered},
          totalAttempts     |-> kg.sessionStats.totalAttempts,
          microDrillsDone   |-> kg.sessionStats.microDrillsCompleted ]

\* the values buildSystemPrompt interpolates into the CURRENT ATTEMPT STATUS and
\* STUDENT KNOWLEDGE GRAPH sections of the prompt
buildSystemPrompt(kg) ==
    LET attemptCount == kg.sessionStats.attemptOnCurrentProblem
    IN  [ attemptCount      |-> attemptCount,
          shouldReveal      |-> attemptCount >= REVEAL_ATTEMPTS,
          weakTopics        |-> kg.weakNodes,
          masteredTopics    |-> {t \in DOMAIN kg.topics : kg.topics[t].mastered},
          totalAttempts     |-> kg.sessionStats.totalAttempts,
          microDrillsDone   |-> kg.sessionStats.microDrillsCompleted ]

\* `[Attempt ${attemptNum}] ${studentInput}`
buildUserMessage(studentInput, attemptNum) ==
    [attempt |-> attemptNum, text |-> studentInput]

\* String.prototype.trim on a text (a sequence of characters)
IsSpace(c) == c = " "

RECURSIVE trimStart(_)
trimStart(text) ==
    IF text # <<>> /\ IsSpace(Head(text)) THEN trimStart(Tail(text)) ELSE text

RECURSIVE trimEnd(_)
trimEnd(text) ==
    IF text # <<>> /\ IsSpace(text[Len(text)])
    THEN trimEnd(SubSeq(text, 1, Len(text) - 1)) ELSE text

trim(text) == trimEnd(trimStart(text))

\* mutant: the whole conversation history is sent
oracleRequest_WholeHistory(req) ==
    [ system   |-> buildSystemPrompt(req.knowledgeGraph),
      messages |-> req.conversationHistory
                   \o << [ role    |-> "user",
                           content |-> buildUserMessage(req.message,
                               req.knowledgeGraph.sessionStats.attemptOnCurrentProblem + 1) ] >> ]

\* what the route sends to the model: system prompt and message list
oracleRequest(req) ==
    [ system   |-> buildSystemPrompt(req.knowledgeGraph),
      messages |-> sliceLast(req.conversationHistory, HISTORY_WINDOW)
                   \o << [ role    |-> "user",
                           content |-> buildUserMessage(req.message,
                               req.knowledgeGraph.sessionStats.attemptOnCurrentProblem + 1) ] >> ]

\* POST: the HTTP response for request body req when the model call ends as `oracle`
\* (kind "api_error": client.messages.create throws; "no_tool": no tool_use block;
\*  "tool": a tool_use block with this input)
POST(req, oracle) ==
    IF trim(req.message) = <<>>
    THEN [ok |-> FALSE, status |-> 400, error |-> "Empty message", body |-> NULL]
    ELSE IF oracle.kind = "api_error"
    THEN [ok |-> FALSE, status |-> 500, error |-> "Anthropic API error 529: Overloaded",
          body |-> NULL]
    ELSE IF oracle.kind = "no_tool"
    THEN [ok |-> FALSE, status |-> 500,
          error |-> "SocraticEngine did not invoke the required tool", body |-> NULL]
    ELSE [ok |-> TRUE, status |-> 200, error |-> "",
          body |-> Some([oracle.input[1] EXCEPT !.whiteboard_instruction =
                            IF @ = NULL THEN DEFAULT_WHITEBOARD ELSE @[1]])]

-----------------------------------------------------------------------------
(* context/SessionContext: reducer *)

State ==
    [ messages              |-> messages,
      conversationHistory   |-> conversationHistory,
      knowledgeGraph        |-> knowledgeGraph,
      whiteboardInstruction |-> whiteboardInstruction,
      isLoading             |-> isLoading,
      error                 |-> error,
      microDrillActive      |-> microDrillActive,
      microDrillTopic       |-> microDrillTopic,
      isStreaming           |-> isStreaming ]

createInitialState ==
    [ messages              |-> <<>>,
      conversationHistory   |-> <<>>,
      knowledgeGraph        |-> createInitialKnowledgeGraph,
      whiteboardInstruction |-> INITIAL_WHITEBOARD,
      isLoading             |-> FALSE,
      error                 |-> NULL,
      microDrillActive      |-> FALSE,
      microDrillTopic       |-> NULL,
      isStreaming           |-> FALSE ]

\* { ...state, knowledgeGraph: action.payload }
INIT_KG(state, payload) == [state EXCEPT !.knowledgeGraph = payload]

\* the three dispatches of sendMessage: SEND_MESSAGE, SET_LOADING true, SET_STREAMING true
SEND_MESSAGE(state, userMessage, history) ==
    [ state EXCEPT !.messages = Append(@, userMessage),
                   !.conversationHistory = history,
                   !.error = NULL,
                   !.isLoading = TRUE,
                   !.isStreaming = TRUE ]

ENGINE_RESPONSE(state, payload, dateNow) ==
    [ state EXCEPT
        !.messages = Append(@, [ role         |-> "assistant",
                                 content      |-> payload.tutor_response,
                                 errorType    |-> Some(payload.error_type),
                                 isMicroDrill |-> Some(payload.micro_drill) ]),
        !.conversationHistory =
            Append(@, [role |-> "assistant", content |-> payload.tutor_response]),
        !.knowledgeGraph = engineResponseKg(state.knowledgeGraph, payload, dateNow),
        !.whiteboardInstruction = payload.whiteboard_instruction,
        !.isLoading = FALSE,
        !.isStreaming = FALSE,
        !.microDrillActive = payload.micro_drill,
        !.microDrillTopic = IF payload.micro_drill
                            THEN Some(payload.knowledge_update.topic) ELSE @ ]

SET_ERROR(state, msg) ==
    [state EXCEPT !.error = Some(msg), !.isLoading = FALSE, !.isStreaming = FALSE]

DISMISS_MICRO_DRILL(state) ==
    [ state EXCEPT !.microDrillActive = FALSE,
                   !.microDrillTopic = NULL,
                   !.knowledgeGraph = resetAttemptCounter(@) ]

\* mutant: the reset keeps the knowledge graph
RESET_SESSION_KeepsGraph(state) ==
    [createInitialState EXCEPT !.knowledgeGraph = state.knowledgeGraph]

\* { ...createInitialState(), knowledgeGraph: createInitialKnowledgeGraph() }
RESET_SESSION(state) ==
    [createInitialState EXCEPT !.knowledgeGraph = createInitialKnowledgeGraph]

\* the continuation of sendMessage after `await fetch`: the dispatch it makes
\* when the fetch of req settles with `oracle` ("network": fetch rejects)
afterFetch(state, req, oracle, dateNow) ==
    IF oracle.kind = "network" THEN SET_ERROR(state, "Failed to fetch")
    ELSE LET res == POST(req, oracle)
         IN  IF ~res.ok THEN SET_ERROR(state, res.error)
             ELSE ENGINE_RESPONSE(state, res.body[1], dateNow)

-----------------------------------------------------------------------------
(* lib/knowledge-graph: persistence *)

\* JSON.stringify(kg): the text of the graph; the topics object is written as its
\* members, a key and a value each
JSONstringify(kg) ==
    [ topics       |-> {<<t, kg.topics[t]>> : t \in DOMAIN kg.topics},
      weakNodes    |-> kg.weakNodes,
      errorHistory |-> kg.errorHistory,
      sessionStats |-> kg.sessionStats ]

\* JSON.parse(text) as KnowledgeGraph: the topics object is rebuilt from its members
JSONparse(text) ==
    [ topics       |-> [t \in {m[1] : m \in text.topics} |->
                           (CHOOSE m \in text.topics : m[1] = t)[2]],
      weakNodes    |-> text.weakNodes,
      errorHistory |-> text.errorHistory,
      sessionStats |-> text.sessionStats ]

\* loadKnowledgeGraph: the parsed item, or a fresh graph when there is none
loadKnowledgeGraph ==
    IF stored # NULL THEN JSONparse(stored[1]) ELSE createInitialKnowledgeGraph

\* mutant: nothing is written
saveKnowledgeGraph_NoWrite(kg) == stored

\* saveKnowledgeGraph: localStorage.setItem, a thrown quota error is swallowed
saveKnowledgeGraph(kg) ==
    IF quotaExceeded THEN stored ELSE Some(JSONstringify(kg))

\* clearKnowledgeGraph: localStorage.removeItem
clearKnowledgeGraph == NULL

\* the "persist KG whenever it changes" effect after a dispatch that produced `next`:
\* the reducer cases INIT_KG, ENGINE_RESPONSE, DISMISS_MICRO_DRILL and RESET_SESSION
\* return a new knowledgeGraph object, the others keep the old one
PersistEffect(newGraphObject, next) ==
    /\ stored' = IF newGraphObject THEN saveKnowledgeGraph(next.knowledgeGraph) ELSE stored
    /\ UNCHANGED quotaExceeded

-----------------------------------------------------------------------------
(* Inputs of the session *)

\* what the student submits: empty, blank, and an answer
Texts == { <<>>, <<" ">>, <<"4">> }

\* a tool_use input as the model returns it (whiteboard_instruction may be missing)
ToolInput(response, kind, drill, wb, topic, delta, mastered, weak) ==
    [ tutor_response         |-> response,
      error_type             |-> kind,
      micro_drill            |-> drill,
      whiteboard_instruction |-> wb,
      knowledge_update       |-> [ topic |-> topic, confidence_delta |-> delta,
                                   mastered |-> mastered, weak_nodes |-> weak ] ]

LimitBoard == [text |-> "Approach x = 2", visualization_type |-> "limit"]

\* a missing string field reads as undefined
UNDEFINED == "undefined"

Incorrect == ToolInput("Check the sign.", "Sign Error", FALSE, Some(LimitBoard),
                       "limits", -30, NULL, Some(<<"limits">>))

Correct == ToolInput("Right. Why?", "None", FALSE, Some(LimitBoard),
                     "limits", 20, Some(TRUE), NULL)

\* records that satisfy the tool schema
WellFormedInputs ==
    { Incorrect,
      ToolInput("Check the sign again.", "Sign Error", TRUE, NULL,
                "limits", -30, NULL, NULL),
      Correct,
      ToolInput("Right. Next?", "None", FALSE, NULL,
                "chain rule", 20, NULL, Some(<<"limits">>)) }

\* records that violate it: an error_type outside the enumeration, a missing
\* tutor_response, a whiteboard_instruction without its visualization_type
MalformedInputs ==
    { ToolInput("Careful.", "Careless Mistake", FALSE, Some(LimitBoard),
                "limits", -30, NULL, NULL),
      ToolInput(UNDEFINED, "None", FALSE, Some(LimitBoard),
                "limits", 20, NULL, NULL),
      ToolInput("Look at the curve.", "None", FALSE,
                Some([text |-> "The curve near x = 2", visualization_type |-> UNDEFINED]),
                "limits", 20, NULL, NULL) }

OracleOutcomes ==
    { [kind |-> "network", input |-> NULL],
      [kind |-> "api_error", input |-> NULL],
      [kind |-> "no_tool", input |-> NULL] }
    \cup { [kind |-> "tool", input |-> Some(r)] : r \in WellFormedInputs \cup MalformedInputs }

\* the outcomes of SpecReveal: a failed fetch, an incorrect and a correct answer
RevealOutcomes ==
    { [kind |-> "network", input |-> NULL],
      [kind |-> "tool", input |-> Some(Incorrect)],
      [kind |-> "tool", input |-> Some(Correct)] }

RemoveAt(s, i) == SubSeq(s, 1, i - 1) \o SubSeq(s, i + 1, Len(s))

-----------------------------------------------------------------------------
(* context/SessionContext: provider *)

SetState(next) ==
    /\ messages' = next.messages
    /\ conversationHistory' = next.conversationHistory
    /\ knowledgeGraph' = next.knowledgeGraph
    /\ whiteboardInstruction' = next.whiteboardInstruction
    /\ isLoading' = next.isLoading
    /\ error' = next.error
    /\ microDrillActive' = next.microDrillActive
    /\ microDrillTopic' = next.microDrillTopic
    /\ isStreaming' = next.isStreaming

\* the guard of sendMessage: if (!text.trim() || state.isLoading) return
sendMessageRejects(text) == trim(text) = <<>> \/ isLoading

\* sendMessage(text) returning at its guard
SendMessageRejected(text) ==
    /\ sendMessageRejects(text)
    /\ UNCHANGED vars

\* fetches settled so far plus fetches pending
TurnsTaken == (now - 1) + Len(inflight)

\* sendMessage(text) up to `await fetch`
SendMessage(text, maxTurns) ==
    /\ ~sendMessageRejects(text)
    /\ TurnsTaken < maxTurns
    /\ LET userMessage    == [ role |-> "user", content |-> text,
                               errorType |-> NULL, isMicroDrill |-> NULL ]
           updatedHistory == Append(conversationHistory, [role |-> "user", content |-> text])
           requestBody    == [ message             |-> text,
                               knowledgeGraph      |-> knowledgeGraph,
                               conversationHistory |-> updatedHistory ]
       IN  /\ SetState(SEND_MESSAGE(State, userMessage, updatedHistory))
           /\ inflight' = Append(inflight, requestBody)
           /\ afterReset' = Append(afterReset, FALSE)
    /\ UNCHANGED <<stored, quotaExceeded, now, incorrectRun, prev, last, graphVars, mounted>>

\* the rest of sendMessage: the fetch of the i-th pending call settles
FetchSettles(i, oracle) ==
    /\ i \in 1..Len(inflight)
    /\ LET next    == afterFetch(State, inflight[i], oracle, now)
           applied == oracle.kind = "tool"
       IN  /\ SetState(next)
           /\ PersistEffect(applied, next)
           /\ now' = now + 1
           /\ incorrectRun' = IF ~applied THEN incorrectRun
                              ELSE IF oracle.input[1].error_type = "None" THEN 0
                              ELSE incorrectRun + 1
    /\ inflight' = RemoveAt(inflight, i)
    /\ afterReset' = RemoveAt(afterReset, i)
    /\ UNCHANGED <<prev, last, graphVars, mounted>>

dismissMicroDrill ==
    /\ LET next == DISMISS_MICRO_DRILL(State)
       IN  /\ SetState(next)
           /\ PersistEffect(TRUE, next)
    /\ incorrectRun' = 0
    /\ UNCHANGED <<inflight, now, afterReset, prev, last, graphVars, mounted>>

\* clearKnowledgeGraph(), dispatch RESET_SESSION, then the persist effect
resetSession ==
    /\ LET next == RESET_SESSION(State)
       IN  /\ SetState(next)
           /\ stored' = IF quotaExceeded THEN clearKnowledgeGraph
                         ELSE saveKnowledgeGraph(next.knowledgeGraph)
    /\ UNCHANGED quotaExceeded
    /\ afterReset' = [i \in 1..Len(afterReset) |-> TRUE]
    /\ incorrectRun' = 0
    /\ UNCHANGED <<inflight, now, prev, last, graphVars, mounted>>

\* the provider after its first render and effects, with nothing persisted before:
\* the load effect finds no graph, the persist effect saves the initial one
Init ==
    /\ SessionInit
    /\ GraphIdle
    /\ mounted = TRUE
    /\ knowledgeGraph = createInitialKnowledgeGraph
    /\ quotaExceeded \in BOOLEAN
    /\ stored = IF quotaExceeded THEN NULL ELSE Some(JSONstringify(knowledgeGraph))
    /\ now = 1
    /\ prev = knowledgeGraph
    /\ last = [op |-> "init", n |-> 0, payload |-> NoPayload]

Next ==
    \/ \E text \in Texts : SendMessageRejected(text)
    \/ \E text \in Texts : SendMessage(text, MaxTurns)
    \/ \E i \in 1..MaxTurns, oracle \in OracleOutcomes : FetchSettles(i, oracle)
    \/ dismissMicroDrill
    \/ resetSession

Spec == Init /\ [][Next]_vars

\* SpecReveal: the same session, observed for more turns over fewer outcomes
NextReveal ==
    \/ \E text \in Texts : SendMessageRejected(text)
    \/ \E text \in Texts : SendMessage(text, RevealTurns)
    \/ \E i \in 1..RevealTurns, oracle \in RevealOutcomes : FetchSettles(i, oracle)
    \/ dismissMicroDrill
    \/ resetSession

SpecReveal == Init /\ [][NextReveal]_vars

\* SpecPersist: the provider from its first render, with what an earlier session left
\* in storage: nothing, the graph of a reset session, or a graph with two errors
PersistPreload == DRILL_THRESHOLD - 1

SavedItems ==
    { NULL, Some(JSONstringify(createInitialKnowledgeGraph)),
      Some(JSONstringify(Replay(PersistPreload))) }

\* the first render: createInitialState(), no effect has run
InitPersist ==
    /\ SessionInit
    /\ GraphIdle
    /\ mounted = FALSE
    /\ knowledgeGraph = createInitialKnowledgeGraph
    /\ quotaExceeded \in BOOLEAN
    /\ stored \in SavedItems
    /\ now = PersistPreload + 1
    /\ prev = knowledgeGraph
    /\ last = [op |-> "init", n |-> 0, payload |-> NoPayload]

\* the effects of the first render: the load effect reads the saved graph and
\* dispatches INIT_KG when it has topics or attempts, the persist effect runs for the
\* initial graph and again for the restored one
Mount ==
    /\ ~mounted
    /\ mounted' = TRUE
    /\ LET saved == loadKnowledgeGraph
           next  == IF DOMAIN saved.topics # {} \/ saved.sessionStats.totalAttempts > 0
                    THEN INIT_KG(State, saved)
                    ELSE State
       IN  /\ SetState(next)
           /\ PersistEffect(TRUE, next)
    /\ UNCHANGED <<inflight, now, afterReset, incorrectRun, prev, last, graphVars>>

NextPersist ==
    \/ Mount
    \/ mounted /\ \E text \in Texts : SendMessageRejected(text)
    \/ mounted /\ \E text \in Texts : SendMessage(text, PersistPreload + PersistTurns)
    \/ mounted /\ \E i \in 1..PersistTurns, oracle \in OracleOutcomes :
                      FetchSettles(i, oracle)
    \/ mounted /\ dismissMicroDrill
    \/ mounted /\ resetSession

SpecPersist == InitPersist /\ [][NextPersist]_vars

\* SpecLive: the session with every fetch settling in the end, over the outcomes of
\* SpecReveal and a tool input that was cut short and has no knowledge_update

\* ENGINE_RESPONSE applied to a record without knowledge_update: applyKnowledgeUpdate
\* destructures undefined, the reducer throws while the provider renders, no state is
\* committed and React unmounts the provider
ReducerThrows(i) ==
    /\ mounted
    /\ i \in 1..Len(inflight)
    /\ mounted' = FALSE
    /\ inflight' = RemoveAt(inflight, i)
    /\ afterReset' = RemoveAt(afterReset, i)
    /\ now' = now + 1
    /\ UNCHANGED <<messages, conversationHistory, knowledgeGraph, whiteboardInstruction,
                   isLoading, error, microDrillActive, microDrillTopic, isStreaming,
                   stored, quotaExceeded, incorrectRun, prev, last, graphVars>>

\* a fetch settles after the provider was unmounted: its dispatch has no effect
SettlesUnmounted(i) ==
    /\ ~mounted
    /\ i \in 1..Len(inflight)
    /\ inflight' = RemoveAt(inflight, i)
    /\ afterReset' = RemoveAt(afterReset, i)
    /\ now' = now + 1
    /\ UNCHANGED <<messages, conversationHistory, knowledgeGraph, whiteboardInstruction,
                   isLoading, error, microDrillActive, microDrillTopic, isStreaming,
                   stored, mounted, quotaExceeded, incorrectRun, prev, last, graphVars>>

\* the fetch of some pending call settles
Settles ==
    \/ mounted /\ \E i \in 1..LiveTurns, oracle \in RevealOutcomes : FetchSettles(i, oracle)
    \/ \E i \in 1..LiveTurns : ReducerThrows(i)
    \/ \E i \in 1..LiveTurns : SettlesUnmounted(i)

NextLive ==
    \/ mounted /\ \E text \in Texts : SendMessageRejected(text)
    \/ mounted /\ \E text \in Texts : SendMessage(text, LiveTurns)
    \/ mounted /\ dismissMicroDrill
    \/ mounted /\ resetSession
    \/ Settles

SpecLive == Init /\ [][NextLive]_vars /\ WF_vars(Settles)

\* SpecWindow: the session after a run of failed turns, one turn short of a full
\* window of conversation history
Digits == <<"0", "1", "2", "3", "4", "5", "6", "7", "8", "9">>

\* the text submitted in the k-th of those turns
FailedText(k) == <<Digits[(k % 10) + 1]>>

\* the state after the turns k..n, each a sendMessage whose fetch is rejected
RECURSIVE FailedTurnsFrom(_, _, _)
FailedTurnsFrom(state, k, n) ==
    IF k > n \/ state # state THEN state
    ELSE FailedTurnsFrom(
             SET_ERROR(SEND_MESSAGE(state,
                                    [ role |-> "user", content |-> FailedText(k),
                                      errorType |-> NULL, isMicroDrill |-> NULL ],
                                    Append(state.conversationHistory,
                                           [role |-> "user", content |-> FailedText(k)])),
                       "Failed to fetch"),
             k + 1, n)

WindowPreload == HISTORY_WINDOW - 1

InitWindow ==
    /\ LET state == FailedTurnsFrom(createInitialState, 1, WindowPreload)
       IN  /\ messages = state.messages
           /\ conversationHistory = state.conversationHistory
           /\ knowledgeGraph = state.knowledgeGraph
           /\ whiteboardInstruction = state.whiteboardInstruction
           /\ isLoading = state.isLoading
           /\ error = state.error
           /\ microDrillActive = state.microDrillActive
           /\ microDrillTopic = state.microDrillTopic
           /\ isStreaming = state.isStreaming
    /\ inflight = <<>>
    /\ afterReset = <<>>
    /\ incorrectRun = 0
    /\ mounted = TRUE
    /\ GraphIdle
    /\ quotaExceeded = FALSE
    /\ stored = Some(JSONstringify(knowledgeGraph))
    /\ now = WindowPreload + 1
    /\ prev = knowledgeGraph
    /\ last = [op |-> "init", n |-> 0, payload |-> NoPayload]

NextWindow ==
    \/ \E text \in Texts : SendMessageRejected(text)
    \/ \E text \in Texts : SendMessage(text, WindowPreload + WindowTurns)
    \/ \E i \in 1..WindowTurns, oracle \in OracleOutcomes : FetchSettles(i, oracle)
    \/ dismissMicroDrill
    \/ resetSession

SpecWindow == InitWindow /\ [][NextWindow]_vars


-----------------------------------------------------------------------------
(* components/Whiteboard/GraphVisualization: createEvaluator *)

\* An expression is kept parsed: [op, name, args] with op one of
\*   "num" (the literal 1), "x", "id" (a bare identifier), "member" (Math.name),
\*   "call" (args[1] applied to args[2]), "bin" (args[1] name args[2]) and
\*   "comma" ((args[1], args[2])); "empty" is the empty string.
Num == [op |-> "num", name |-> "1", args |-> <<>>]

X == [op |-> "x", name |-> "x", args |-> <<>>]

Id(n) == [op |-> "id", name |-> n, args |-> <<>>]

MathMember(n) == [op |-> "member", name |-> n, args |-> <<>>]

Call(f, a) == [op |-> "call", name |-> "", args |-> <<f, a>>]

Bin(o, l, r) == [op |-> "bin", name |-> o, args |-> <<l, r>>]

Comma(l, r) == [op |-> "comma", name |-> ",", args |-> <<l, r>>]

\* the spelling of the words the expressions use
Chars ==
    [ Math   |-> <<"M", "a", "t", "h">>,
      sin    |-> <<"s", "i", "n">>,
      sqrt   |-> <<"s", "q", "r", "t">>,
      PI     |-> <<"P", "I">>,
      random |-> <<"r", "a", "n", "d", "o", "m">>,
      length |-> <<"l", "e", "n", "g", "t", "h">>,
      self   |-> <<"s", "e", "l", "f">>,
      fetch  |-> <<"f", "e", "t", "c", "h">>,
      alert  |-> <<"a", "l", "e", "r", "t">>,
      foo    |-> <<"f", "o", "o">>,
      window |-> <<"w", "i", "n", "d", "o", "w">>,
      eval   |-> <<"e", "v", "a", "l">> ]

\* the text of an expression as its tokens, each token a sequence of characters
RECURSIVE Tokens(_)
Tokens(e) ==
    CASE e.op = "empty"  -> <<>>
      [] e.op = "num"    -> << <<"1">> >>
      [] e.op = "x"      -> << <<"x">> >>
      [] e.op = "id"     -> << Chars[e.name] >>
      [] e.op = "member" -> << Chars["Math"], <<".">>, Chars[e.name] >>
      [] e.op = "call"   -> Tokens(e.args[1]) \o << <<"(">> >> \o Tokens(e.args[2])
                            \o << <<")">> >>
      [] e.op = "bin"    -> Tokens(e.args[1]) \o << <<e.name>> >> \o Tokens(e.args[2])
      [] OTHER           -> << <<"(">> >> \o Tokens(e.args[1]) \o << <<",">> >>
                            \o Tokens(e.args[2]) \o << <<")">> >>

\* \w of a regular expression
WordChars ==
    { "a", "b", "c", "d", "e", "f", "g", "h", "i", "j", "k", "l", "m", "n", "o", "p",
      "q", "r", "s", "t", "u", "v", "w", "x", "y", "z", "A", "B", "C", "D", "E", "F",
      "G", "H", "I", "J", "K", "L", "M", "N", "O", "P", "Q", "R", "S", "T", "U", "V",
      "W", "X", "Y", "Z", "0", "1", "2", "3", "4", "5", "6", "7", "8", "9", "_" }

IsWord(token) == token # <<>> /\ \A i \in 1..Len(token) : token[i] \in WordChars

\* expression.replace(/Math\.\w+/g, 'Math.x')
RECURSIVE replaceMathMembers(_)
replaceMathMembers(tokens) ==
    IF tokens = <<>> THEN <<>>
    ELSE IF /\ Len(tokens) >= 3
            /\ tokens[1] = Chars["Math"]
            /\ tokens[2] = <<".">>
            /\ IsWord(tokens[3])
    THEN << Chars["Math"], <<".">>, <<"x">> >>
         \o replaceMathMembers(SubSeq(tokens, 4, Len(tokens)))
    ELSE << tokens[1] >> \o replaceMathMembers(Tail(tokens))

\* the character class of `safe`:
\* [x\d\s\+\-\*\/\.\(\)Math\.,sincotanlogpowexpabsfloorceiltanh]
SafeChars ==
    { "x", "0", "1", "2", "3", "4", "5", "6", "7", "8", "9", " ",
      "+", "-", "*", "/", ".", "(", ")", ",",
      "M", "a", "t", "h",
      "s", "i", "n", "c", "o", "l", "g", "p", "w", "e", "b", "f", "r" }

\* safe.test(text): ^[...]+$, one character at least and every character in the class
safeTest(tokens) ==
    /\ tokens # <<>>
    /\ \A i \in 1..Len(tokens) : \A j \in 1..Len(tokens[i]) : tokens[i][j] \in SafeChars

\* const {sin,cos,tan,log,exp,abs,pow,sqrt,PI,E,floor,ceil,tanh,sinh,cosh,asin,acos,atan} = Math
Destructured ==
    { "sin", "cos", "tan", "log", "exp", "abs", "pow", "sqrt", "PI", "E", "floor",
      "ceil", "tanh", "sinh", "cosh", "asin", "acos", "atan" }

\* typeof Math[name]
typeofMath(name) ==
    IF name \in {"PI", "E"} THEN "number"
    ELSE IF name \in Destructured \cup {"random"} THEN "function"
    ELSE "undefined"

\* the names the body of `new Function` finds in the global scope of a browser, with
\* the typeof of their values
HostGlobals ==
    [ length |-> "number", self |-> "object", window |-> "object",
      fetch |-> "function", alert |-> "function", eval |-> "function" ]

\* the typeof of what a call of the function named n returns for a number
typeofResult(n) ==
    IF n = "fetch" THEN "object" ELSE IF n = "alert" THEN "undefined" ELSE "number"

\* typeof fn(1) for the body `return <expression>`, or "throw"
RECURSIVE typeofValue(_)
typeofValue(e) ==
    CASE e.op \in {"num", "x"} -> "number"
      [] e.op = "id" ->
            IF e.name \in Destructured THEN typeofMath(e.name)
            ELSE IF e.name \in DOMAIN HostGlobals THEN HostGlobals[e.name]
            ELSE "throw"
      [] e.op = "member" -> typeofMath(e.name)
      [] e.op = "call" ->
            IF typeofValue(e.args[1]) = "throw" \/ typeofValue(e.args[2]) = "throw"
            THEN "throw"
            ELSE IF typeofValue(e.args[1]) # "function" THEN "throw"
            ELSE typeofResult(e.args[1].name)
      [] e.op = "bin" ->
            IF typeofValue(e.args[1]) = "throw" \/ typeofValue(e.args[2]) = "throw"
            THEN "throw"
            ELSE IF e.name = "+" /\ typeofValue(e.args[1]) \in {"object", "function"}
            THEN "string"
            ELSE "number"
      [] OTHER ->
            IF typeofValue(e.args[1]) = "throw" THEN "throw" ELSE typeofValue(e.args[2])

\* createEvaluator(expression): null, or the evaluator of the expression
createEvaluator(e) ==
    IF Tokens(e) = <<>> THEN NULL
    ELSE IF ~safeTest(replaceMathMembers(Tokens(e))) THEN NULL
    ELSE IF typeofValue(e) # "number" THEN NULL
    ELSE Some(e)

\* the expressions a function_config is given: atoms, calls on x, and one operator
\* or comma over them
Atoms ==
    {Num, X}
    \cup {Id(n) : n \in {"sin", "sqrt", "PI", "length", "self", "fetch", "alert",
                         "foo", "window", "eval"}}
    \cup {MathMember(n) : n \in {"sin", "PI", "random"}}

Operands == Atoms \cup {Call(f, X) : f \in Atoms \ {Num, X}}

Expressions ==
    {NoExpression} \cup Operands
    \cup {Bin("+", a, X) : a \in Operands}
    \cup {Bin("*", a, Num) : a \in Operands}
    \cup {Comma(a, X) : a \in Operands}

\* the session and the store are untouched while a graph is drawn
StoreInit ==
    /\ knowledgeGraph = createInitialKnowledgeGraph
    /\ mounted = TRUE
    /\ stored = NULL
    /\ quotaExceeded = FALSE
    /\ now = 1
    /\ prev = knowledgeGraph
    /\ last = [op |-> "init", n |-> 0, payload |-> NoPayload]

\* GraphVisualization is rendered with a function_config whose expression is e
InitSandbox ==
    /\ SessionInit
    /\ StoreInit
    /\ expression \in Expressions
    /\ evaluator = NotCompiled
    /\ samples = <<>>
    /\ path = NULL
    /\ AnimIdle

\* const fn = useMemo(() => createEvaluator(config.expression), [config.expression])
useMemoEvaluator ==
    /\ ~evaluator.compiled
    /\ evaluator' = [compiled |-> TRUE, fn |-> createEvaluator(expression)]
    /\ UNCHANGED <<expression, samples, path, animVars, sessionVars, knowledgeGraph,
                   now, prev, last>>

NextSandbox == useMemoEvaluator

SpecSandbox == InitSandbox /\ [][NextSandbox]_vars

-----------------------------------------------------------------------------
(* components/Whiteboard/GraphVisualization: generatePath *)

\* a value of fn: a finite number or NaN (the evaluator turns +-Infinity into NaN)
Finite(v) == [finite |-> TRUE, v |-> v]

NaN == [finite |-> FALSE, v |-> 0]

isFinite(y) == y.finite

\* round(a / b) for b > 0, the rounding of toFixed
RoundDiv(a, b) == (2 * a + b) \div (2 * b)

\* px.toFixed(2) in hundredths: px = ((x - xMin) / (xMax - xMin)) * width with
\* x = xMin + (i / steps) * (xMax - xMin)
pxFixed(i, steps, width) == RoundDiv(100 * i * width, steps)

\* py.toFixed(2) in hundredths: py = height - ((y - yMin) / (yMax - yMin)) * height
pyFixed(y, yMin, yMax, height) ==
    100 * height - RoundDiv(100 * (y - yMin) * height, yMax - yMin)

\* mutant: the viewport without its margin of one unit
drawable_NoMargin(y, yMin, yMax) ==
    isFinite(y) /\ ~(y.v < yMin \/ y.v > yMax)

\* the negation of: !isFinite(y) || y < yMin - 1 || y > yMax + 1
drawable(y, yMin, yMax) ==
    isFinite(y) /\ ~(y.v < yMin - 1 \/ y.v > yMax + 1)

\* the loop of generatePath from sample i on; fn[i + 1] is the value of fn at sample i
RECURSIVE generatePathFrom(_, _, _, _, _, _, _, _, _)
generatePathFrom(fn, i, steps, penDown, points, yMin, yMax, width, height) ==
    IF i > steps THEN points
    ELSE LET y == fn[i + 1]
         IN  IF ~drawable(y, yMin, yMax)
             THEN generatePathFrom(fn, i + 1, steps, FALSE, points,
                                   yMin, yMax, width, height)
             ELSE generatePathFrom(fn, i + 1, steps, TRUE,
                      Append(points, [ cmd |-> IF ~penDown THEN "M" ELSE "L",
                                       px  |-> pxFixed(i, steps, width),
                                       py  |-> pyFixed(y.v, yMin, yMax, height) ]),
                      yMin, yMax, width, height)

\* generatePath(fn, xMin, xMax, yMin, yMax, width, height, steps): the path commands
generatePath(fn, yMin, yMax, width, height, steps) ==
    generatePathFrom(fn, 0, steps, FALSE, <<>>, yMin, yMax, width, height)

\* the canvas and the default viewport of GraphVisualization
W == 480

H == 320

Y_MIN == -2

Y_MAX == 10

\* the values fn takes: undefined, and around both edges of the viewport's margin
SampleValues ==
    { NaN, Finite(Y_MIN - 2), Finite(Y_MIN - 1), Finite(4),
      Finite(Y_MAX + 1), Finite(Y_MAX + 2) }

\* GraphCanvas is rendered with an evaluator whose values at the sample points are
\* `samples`; the path is not computed yet
InitPath ==
    /\ SessionInit
    /\ StoreInit
    /\ expression = Call(MathMember("sin"), X)
    /\ evaluator = [compiled |-> TRUE, fn |-> createEvaluator(expression)]
    /\ samples \in [1..(PathSteps + 1) -> SampleValues]
    /\ path = NULL
    /\ AnimIdle

\* const path = useMemo(() => generatePath(fn, xMin, xMax, yMin, yMax, W, H), ...)
useMemoPath ==
    /\ path = NULL
    /\ path' = Some(generatePath(samples, Y_MIN, Y_MAX, W, H, PathSteps))
    /\ UNCHANGED <<expression, evaluator, samples, animVars, sessionVars, knowledgeGraph,
                   now, prev, last>>

NextPath == useMemoPath

SpecPath == InitPath /\ [][NextPath]_vars

-----------------------------------------------------------------------------
(* components/Whiteboard/GraphVisualization: the animators LimitViz, DerivativeViz
   and IntegralViz, each a component with one state value and one effect that
   starts a repeating timer and returns the cleanup that clears it *)

\* config.limit_approach ?? 2
approachOf(config) == IF config.limit_approach # NULL THEN config.limit_approach[1] ELSE 2

\* config.derivative_point ?? 1
x0Of(config) == IF config.derivative_point # NULL THEN config.derivative_point[1] ELSE 1

\* config.integral_a ?? 0
aOf(config) == IF config.integral_a # NULL THEN config.integral_a[1] ELSE 0

\* config.integral_b ?? 2
bOf(config) == IF config.integral_b # NULL THEN config.integral_b[1] ELSE 2

\* the dependency list of the effect of each animator
effectDeps(config) ==
    CASE config.visualizationType = "limit"      -> <<approachOf(config)>>
      [] config.visualizationType = "derivative" -> <<x0Of(config)>>
      [] config.visualizationType = "integral"   -> <<aOf(config), bOf(config)>>
      [] OTHER                                   -> <<>>

\* GraphVisualization returns an element: not (!fn || visualizationType === 'none')
rendersGraph(props) ==
    props.visualizationType # "none" /\ createEvaluator(props.expression) # NULL

\* useState(approach + 1.8), useState(1.5), useState(4)
initialValue(config) ==
    CASE config.visualizationType = "limit"      -> AnimValue("start", approachOf(config))
      [] config.visualizationType = "derivative" -> AnimValue("start", 0)
      [] OTHER                                   -> AnimValue("rectangles", STEPS[1])

\* clearInterval(id)
clearInterval(ts, id) == {t \in ts : t.id # id}

\* mutant: the effect returns no cleanup
effectCleanup_NoClear(ts, id) == ts

\* return () => clearInterval(id)
effectCleanup(ts, id) == clearInterval(ts, id)

\* const id = setInterval(...): the timer of effect `id` of instance `inst`, with the
\* variables its callback closes over (let i = 0 / let t = 0, approach)
setInterval(config, inst, id) ==
    [ id |-> id, inst |-> inst, kind |-> config.visualizationType, i |-> 0,
      approach |-> approachOf(config) ]

\* the animator of `props` mounted as instance `id`, its effect run for the first time
mountAnimator(props, id) ==
    [ kind |-> props.visualizationType, key |-> motionKey(props),
      deps |-> effectDeps(props), value |-> initialValue(props),
      exiting |-> FALSE, inst |-> id, effect |-> id ]

\* the mounted animator is unmounted (its cleanup runs) and the one of `props`, if it
\* has one, is mounted
unmountThenMount(props, renders) ==
    LET id      == display.effects + 1
        cleared == IF animator.kind = "none" THEN timers
                   ELSE effectCleanup(timers, animator.effect)
    IN  IF rendersGraph(props)
        THEN /\ animator' = mountAnimator(props, id)
             /\ timers' = cleared \cup {setInterval(props, id, id)}
             /\ display' = [props |-> props, renders |-> renders, effects |-> id]
        ELSE /\ animator' = NoAnimator
             /\ timers' = cleared
             /\ display' = [display EXCEPT !.props = props, !.renders = renders]

\* the mounted animator is rendered again with `props`: its effect is cleaned up and
\* run again when its dependencies changed; its state value is kept
rerender(props, renders) ==
    LET id == display.effects + 1
    IN  IF effectDeps(props) # animator.deps
        THEN /\ animator' = [animator EXCEPT !.deps = effectDeps(props), !.effect = id,
                                             !.exiting = FALSE]
             /\ timers' = effectCleanup(timers, animator.effect)
                              \cup {setInterval(props, animator.inst, id)}
             /\ display' = [props |-> props, renders |-> renders, effects |-> id]
        ELSE /\ animator' = [animator EXCEPT !.exiting = FALSE]
             /\ timers' = timers
             /\ display' = [display EXCEPT !.props = props, !.renders = renders]

\* the whiteboard instruction changed: GraphVisualization is rendered with new props.
\* A motion.div whose key is gone may stay mounted while its exit animation runs
\* (AnimatePresence mode="wait"), and is replaced when the animation is over
Render(props) ==
    /\ display.renders < MaxRenders
    /\ props # display.props
    /\ IF animator.kind # "none" /\ rendersGraph(props) /\ motionKey(props) = animator.key
       THEN rerender(props, display.renders + 1)
       ELSE \/ unmountThenMount(props, display.renders + 1)
            \/ /\ animator.kind # "none"
               /\ animator' = [animator EXCEPT !.exiting = TRUE]
               /\ display' = [display EXCEPT !.props = props,
                                             !.renders = display.renders + 1]
               /\ timers' = timers
    /\ UNCHANGED <<ticked, expression, evaluator, samples, path, sessionVars,
                   knowledgeGraph, now, prev, last>>

\* the exit animation of the motion.div is over
ExitComplete ==
    /\ animator.exiting
    /\ unmountThenMount(display.props, display.renders)
    /\ UNCHANGED <<ticked, expression, evaluator, samples, path, sessionVars,
                   knowledgeGraph, now, prev, last>>

\* the callback of the interval of IntegralViz
integralTick(t) ==
    LET i == t.i + 1
    IN  IF i >= Len(STEPS)
        THEN [timers |-> clearInterval(timers, t.id), set |-> FALSE,
              value |-> animator.value]
        ELSE [timers |-> (timers \ {t}) \cup {[t EXCEPT !.i = i]}, set |-> TRUE,
              value |-> AnimValue(IF STEPS[i + 1] = 0 THEN "smooth" ELSE "rectangles",
                                  STEPS[i + 1])]

\* the callback of the interval of LimitViz and of DerivativeViz; `reached`: the
\* distance has fallen under 0.02 at this tick
approachTick(t, reached) ==
    [ timers |-> IF reached THEN clearInterval(timers, t.id) ELSE timers,
      set    |-> TRUE,
      value  |-> AnimValue(IF reached THEN "settled" ELSE "moving",
                           IF t.kind = "limit" THEN t.approach ELSE 0) ]

\* a timer fires; a state setter of an unmounted instance does nothing
Tick(t) ==
    /\ t \in timers
    /\ \E reached \in BOOLEAN :
          LET r      == IF t.kind = "integral" THEN integralTick(t)
                        ELSE approachTick(t, reached)
              writes == r.set /\ animator.kind # "none" /\ animator.inst = t.inst
          IN  /\ timers' = r.timers
              /\ animator' = IF writes THEN [animator EXCEPT !.value = r.value]
                             ELSE animator
              /\ ticked' = [id |-> t.id, wrote |-> writes,
                            current |-> t.id = animator.effect]
    /\ UNCHANGED <<display, expression, evaluator, samples, path, sessionVars,
                   knowledgeGraph, now, prev, last>>

\* the graphs the whiteboard asks for: each kind, over two expressions that compile
\* and one that does not, with the default point and interval and with other ones
AnimProps ==
    { VizProps(k, e, p, p, NULL, NULL) :
        k \in {"none", "limit", "derivative", "integral"},
        e \in {Bin("*", X, Num), Call(MathMember("sin"), X)},
        p \in {NULL, Some(1)} }
    \cup { VizProps("integral", Bin("*", X, Num), NULL, NULL, NULL, Some(3)),
           VizProps("limit", Id("alert"), NULL, NULL, NULL, NULL) }

InitAnim ==
    /\ SessionInit
    /\ StoreInit
    /\ expression = NoExpression
    /\ evaluator = NotCompiled
    /\ samples = <<>>
    /\ path = NULL
    /\ AnimIdle

NextAnim ==
    \/ \E props \in AnimProps : Render(props)
    \/ ExitComplete
    \/ \E t \in timers : Tick(t)

SpecAnim == InitAnim /\ [][NextAnim]_vars

-----------------------------------------------------------------------------
(* Properties of the session (Spec, SpecReveal) *)

\* the tool schema's required fields and the closed enumeration of error_type
ViolatesContract(input) ==
    input.tutor_response = UNDEFINED \/ input.error_type \notin ERROR_TYPES

FailedOutcome(oracle) ==
    \/ oracle.kind \in {"network", "api_error", "no_tool"}
    \/ oracle.kind = "tool" /\ ViolatesContract(oracle.input[1])

\* C1: a response that settles for a request dispatched before a session reset is
\* discarded: knowledge graph, messages, conversation history, visualization and
\* drill flag are left as they are.
C1_StaleResponseDiscarded ==
    [][\A i \in 1..Len(inflight), oracle \in OracleOutcomes :
          (afterReset[i] /\ FetchSettles(i, oracle)) =>
              UNCHANGED <<knowledgeGraph, messages, conversationHistory,
                          whiteboardInstruction, microDrillActive>>]_vars

\* C2: at most one oracle request is in flight at any time.
C2_AtMostOneInFlight == Len(inflight) <= 1

\* C3: when a request fails (network error, non-OK status, missing tool invocation,
\* malformed record) the machine is Idle afterwards with a non-null error and the
\* knowledge graph is what it was.
C3_FailureReturnsToIdle ==
    [][\A i \in 1..Len(inflight), oracle \in OracleOutcomes :
          (FailedOutcome(oracle) /\ FetchSettles(i, oracle)) =>
              (~isLoading' /\ error' # NULL /\ knowledgeGraph' = knowledgeGraph)]_vars

\* C4: no part of a record that violates the contract is applied to topic states,
\* error history, weak nodes or session stats.
C4_MalformedNotApplied ==
    [][\A i \in 1..Len(inflight), oracle \in OracleOutcomes :
          (oracle.kind = "tool" /\ ViolatesContract(oracle.input[1])
              /\ FetchSettles(i, oracle)) =>
              /\ knowledgeGraph'.topics = knowledgeGraph.topics
              /\ knowledgeGraph'.errorHistory = knowledgeGraph.errorHistory
              /\ knowledgeGraph'.weakNodes = knowledgeGraph.weakNodes
              /\ knowledgeGraph'.sessionStats = knowledgeGraph.sessionStats]_vars

\* C5: the drill flag becomes active only by an applied record whose drill flag is
\* set, and once active it is cleared only by the user's dismissal (or with the
\* whole session, by a reset).
C5_DrillStaysUntilDismissed ==
    [][/\ (~microDrillActive /\ microDrillActive') =>
              \E i \in 1..Len(inflight), oracle \in OracleOutcomes :
                  /\ oracle.kind = "tool"
                  /\ oracle.input[1].micro_drill
                  /\ FetchSettles(i, oracle)
       /\ (microDrillActive /\ ~microDrillActive') =>
              (dismissMicroDrill \/ resetSession)]_vars

\* C6: the request built for a turn carries attempt number attemptOnCurrentProblem + 1
\* and permits reveal mode iff attemptOnCurrentProblem >= 3 (never for 0, 1, 2), and
\* then at least three incorrect records were applied since the last correct record,
\* dismissal or reset.
C6_RevealGating ==
    [][Len(inflight') = Len(inflight) + 1 =>
          LET req     == inflight'[Len(inflight')]
              sent    == oracleRequest(req)
              attempt == req.knowledgeGraph.sessionStats.attemptOnCurrentProblem
          IN  /\ req.knowledgeGraph = knowledgeGraph
              /\ sent.messages[Len(sent.messages)].content.attempt = attempt + 1
              /\ sent.system.shouldReveal <=> attempt >= 3
              /\ attempt \in {0, 1, 2} =>
                    /\ ~sent.system.shouldReveal
                    /\ sent.messages[Len(sent.messages)].content.attempt \in {1, 2, 3}
              /\ sent.system.shouldReveal => incorrectRun >= 3]_vars

\* C6 witness: a request that permits reveal mode is in flight
C6_Witness ==
    \E i \in 1..Len(inflight) : oracleRequest(inflight[i]).system.shouldReveal

-----------------------------------------------------------------------------
(* SpecErrors: the store driven by answers of every kind on one topic, started from
   histories short of the drill threshold and short of a full history *)

ErrorPreloads == {0, 5, HISTORY_KEEP}

ErrorPayloads ==
    { Payload("limits", -30, k, NULL, NULL, FALSE) :
        k \in {"None", "Sign Error", "Wrong Theorem", "Arithmetic Error"} }

InitErrors ==
    /\ SessionInit
    /\ GraphIdle
    /\ mounted = TRUE
    /\ stored = NULL
    /\ quotaExceeded = FALSE
    /\ \E n \in ErrorPreloads :
          /\ knowledgeGraph = Replay(n)
          /\ now = n + 1
    /\ prev = knowledgeGraph
    /\ last = [op |-> "init", n |-> 0, payload |-> NoPayload]

ErrorsApply ==
    /\ last.n < ErrorSteps
    /\ \E payload \in ErrorPayloads :
          /\ knowledgeGraph' = engineResponseKg(knowledgeGraph, payload, now)
          /\ last' = [op |-> "apply", n |-> last.n + 1, payload |-> payload]
    /\ prev' = knowledgeGraph
    /\ now' = now + 1
    /\ UNCHANGED <<sessionVars, graphVars>>

ErrorsReset ==
    /\ last.n < ErrorSteps
    /\ knowledgeGraph' = createInitialKnowledgeGraph
    /\ last' = [op |-> "reset", n |-> last.n + 1, payload |-> NoPayload]
    /\ prev' = knowledgeGraph
    /\ UNCHANGED <<now, sessionVars, graphVars>>

NextErrors == ErrorsApply \/ ErrorsReset

SpecErrors == InitErrors /\ [][NextErrors]_vars

-----------------------------------------------------------------------------
(* Properties of the store (SpecKG) *)

LastUpdate == last.payload.knowledge_update

LastTopic == LastUpdate.topic

\* C7: every confidenceScore lies in [0,100] whatever the delta, and a topic seen for
\* the first time is scored from 50.
C7_ScoreInRange ==
    /\ \A t \in DOMAIN knowledgeGraph.topics :
          knowledgeGraph.topics[t].confidenceScore \in 0..100
    /\ (last.op = "apply" /\ LastTopic \notin DOMAIN prev.topics) =>
          LET sum == 50 + LastUpdate.confidence_delta
          IN  knowledgeGraph.topics[LastTopic].confidenceScore =
                  IF sum > 100 THEN 100 ELSE IF sum < 0 THEN 0 ELSE sum

\* C7 witness: a delta beyond the range was applied and both extremes are present
C7_Witness ==
    /\ last.op = "apply"
    /\ LastUpdate.confidence_delta = -120
    /\ knowledgeGraph.topics[LastTopic].confidenceScore = 0
    /\ \E t \in DOMAIN knowledgeGraph.topics :
          knowledgeGraph.topics[t].confidenceScore = 100

\* C8: after an update the topic is mastered exactly when the explicit flag is true,
\* or no flag was given and the new score is at least 85 on a correct answer.
C8_MasteredExactly ==
    last.op = "apply" =>
        LET entry == knowledgeGraph.topics[LastTopic]
        IN  entry.mastered <=>
               IF LastUpdate.mastered # NULL THEN LastUpdate.mastered[1]
               ELSE entry.confidenceScore >= 85 /\ last.payload.error_type = "None"

\* C8 witness: mastered without an explicit flag
C8_Witness ==
    /\ last.op = "apply"
    /\ LastUpdate.mastered = NULL
    /\ knowledgeGraph.topics[LastTopic].mastered

\* C9: a topic the update leaves mastered is absent from the weak-node set.
C9_MasteredNotWeak ==
    (last.op = "apply" /\ knowledgeGraph.topics[LastTopic].mastered) =>
        LastTopic \notin Range(knowledgeGraph.weakNodes)

\* C9 witness: the mastered topic was weak before and is named weak by the same update
C9_Witness ==
    /\ last.op = "apply"
    /\ knowledgeGraph.topics[LastTopic].mastered
    /\ LastTopic \in Range(prev.weakNodes)
    /\ LastUpdate.weak_nodes # NULL
    /\ LastTopic \in Range(LastUpdate.weak_nodes[1])

\* C10: the error history has at most 50 entries, none of kind None, in arrival
\* order; an error appends one entry and evicts exactly the oldest one of 50, and
\* an update of kind None leaves the history as it was.
C10_ErrorHistoryBounded ==
    LET h == knowledgeGraph.errorHistory
        p == prev.errorHistory
    IN  /\ Len(h) <= 50
        /\ \A i \in 1..Len(h) : h[i].type # "None"
        /\ \A i, j \in 1..Len(h) : i < j => h[i].timestamp <= h[j].timestamp
        /\ (last.op = "apply" /\ last.payload.error_type = "None") => h = p
        /\ (last.op = "apply" /\ last.payload.error_type # "None") =>
              /\ h[Len(h)].type = last.payload.error_type
              /\ h[Len(h)].topic = LastTopic
              /\ SubSeq(h, 1, Len(h) - 1) = IF Len(p) = 50 THEN Tail(p) ELSE p

\* C10 witness: a 51st error was recorded
C10_Witness ==
    /\ last.op = "apply"
    /\ last.payload.error_type # "None"
    /\ Len(prev.errorHistory) = 50
    /\ Len(knowledgeGraph.errorHistory) = 50


C12_SessionStatsStep ==
    last.op = "apply" =>
        LET s       == knowledgeGraph.sessionStats
            p       == prev.sessionStats
            correct == last.payload.error_type = "None"
        IN  /\ correct =>
                  (s.consecutiveFailures = 0 /\ s.attemptOnCurrentProblem = 0)
            /\ ~correct =>
                  /\ s.consecutiveFailures = p.consecutiveFailures + 1
                  /\ s.attemptOnCurrentProblem = p.attemptOnCurrentProblem + 1
            /\ s.totalAttempts = p.totalAttempts + 1
            /\ s.currentTopic = LastTopic

\* C12 witness: a correct answer after failures, on another topic than the previous one
C12_Witness ==
    /\ last.op = "apply"
    /\ last.payload.error_type = "None"
    /\ prev.sessionStats.consecutiveFailures > 0
    /\ prev.sessionStats.attemptOnCurrentProblem > 0
    /\ prev.sessionStats.currentTopic # LastTopic
    /\ knowledgeGraph.sessionStats.attemptOnCurrentProblem = 0


-----------------------------------------------------------------------------
(* Further properties of the session (Spec) *)

\* C13: right after a session reset the displayed messages and the conversation
\* history are empty, the knowledge graph in memory is the empty initial graph, the
\* persisted graph is the empty initial graph or absent, the drill flag is off and no
\* error is shown.
C13_ResetClearsSession ==
    [][resetSession =>
          /\ messages' = <<>>
          /\ conversationHistory' = <<>>
          /\ knowledgeGraph' = createInitialKnowledgeGraph
          /\ stored' = NULL \/ JSONparse(stored'[1]) = createInitialKnowledgeGraph
          /\ ~microDrillActive'
          /\ error' = NULL]_vars

\* C13 witness: the session was reset while a request built from a non-empty graph
\* was pending, and it is empty now
C13_Witness ==
    /\ \E i \in 1..Len(inflight) :
          /\ afterReset[i]
          /\ inflight[i].knowledgeGraph # createInitialKnowledgeGraph
          /\ Len(inflight[i].conversationHistory) > 1
    /\ messages = <<>>
    /\ knowledgeGraph = createInitialKnowledgeGraph
    /\ stored # NULL
    /\ JSONparse(stored[1]) = createInitialKnowledgeGraph


-----------------------------------------------------------------------------
(* Properties of the graph (SpecSandbox, SpecPath) *)

\* the numeric namespace: x and the names taken from Math
NumericNamespace == {"x"} \cup Destructured

\* the bare identifiers an expression refers to that are outside the namespace
\* (a member of Math is inside it)
RECURSIVE ForeignNames(_)
ForeignNames(e) ==
    CASE e.op = "id" -> {e.name} \ NumericNamespace
      [] e.op \in {"call", "bin", "comma"} ->
            ForeignNames(e.args[1]) \cup ForeignNames(e.args[2])
      [] OTHER -> {}

\* C14: createEvaluator returns null for every expression that refers to an identifier
\* outside the numeric namespace, so an expression it accepts is built from numbers,
\* x, operators, parentheses, commas and the library names only.
C14_SandboxRejectsForeignNames ==
    (evaluator.compiled /\ evaluator.fn # NULL) => ForeignNames(expression) = {}


\* the samples generatePath may draw: finite and within [yMin - 1, yMax + 1]
Drawable ==
    {i \in 0..PathSteps :
        /\ samples[i + 1].finite
        /\ samples[i + 1].v >= Y_MIN - 1
        /\ samples[i + 1].v <= Y_MAX + 1}

\* the first samples of the maximal runs of drawable samples
RunStarts == {i \in Drawable : i = 0 \/ (i - 1) \notin Drawable}

\* the k-th drawable sample
NthDrawable(k) == CHOOSE i \in Drawable : Cardinality({j \in Drawable : j < i}) = k - 1

\* C15: generatePath emits one command per drawable sample, in order, and none for
\* the others: a move-to for a sample that starts a run of drawable samples, a line-to
\* for any other, so there are as many move-to commands as runs.
C15_PathBreaksAtGaps ==
    path # NULL =>
        LET points == path[1]
        IN  /\ Len(points) = Cardinality(Drawable)
            /\ \A k \in 1..Len(points) :
                  LET i == NthDrawable(k)
                  IN  /\ points[k].px = pxFixed(i, PathSteps, W)
                      /\ points[k].cmd = IF i \in RunStarts THEN "M" ELSE "L"
            /\ Cardinality({k \in 1..Len(points) : points[k].cmd = "M"})
                  = Cardinality(RunStarts)

\* C15 witness: one undefined sample strictly between drawable ones, with a sample on
\* the margin of the viewport, drawn as two segments
C15_Witness ==
    /\ path # NULL
    /\ \E i \in 1..(PathSteps - 1) :
          /\ samples[i + 1] = NaN
          /\ Drawable = (0..PathSteps) \ {i}
    /\ \E i \in Drawable : samples[i + 1].v = Y_MAX + 1
    /\ Cardinality({k \in 1..Len(path[1]) : path[1][k].cmd = "M"}) = 2


-----------------------------------------------------------------------------
(* Properties of the session, continued (Spec) *)

\* C16: whenever applying a well-formed record leaves some error kind with at least 3
\* occurrences in the recent error history (shouldTriggerMicroDrill), the session is
\* drill-active after that turn.
C16_DrillAfterThreeErrors ==
    [][\A i \in 1..Len(inflight), oracle \in OracleOutcomes :
          (/\ oracle.kind = "tool"
           /\ ~ViolatesContract(oracle.input[1])
           /\ FetchSettles(i, oracle)
           /\ shouldTriggerMicroDrill(knowledgeGraph')) => microDrillActive']_vars


\* C17: the message list sent to the oracle for a request is the last 20 turns of the
\* request's conversation history, in their order, followed by the attempt-labelled
\* user message; no older turn is sent.
C17_OracleSeesLastTwentyTurns ==
    \A i \in 1..Len(inflight) :
        LET req  == inflight[i]
            h    == req.conversationHistory
            sent == oracleRequest(req).messages
            kept == IF Len(h) < 20 THEN Len(h) ELSE 20
        IN  /\ Len(sent) = kept + 1
            /\ \A k \in 1..kept : sent[k] = h[Len(h) - kept + k]
            /\ sent[kept + 1].role = "user"
            /\ sent[kept + 1].content.text = req.message
            /\ sent[kept + 1].content.attempt =
                   req.knowledgeGraph.sessionStats.attemptOnCurrentProblem + 1

\* C17 witness: a request whose history is longer than 20 turns is in flight
C17_Witness ==
    \E i \in 1..Len(inflight) :
        /\ Len(inflight[i].conversationHistory) > 20
        /\ Len(oracleRequest(inflight[i]).messages) = 21
        /\ oracleRequest(inflight[i]).messages[1] = inflight[i].conversationHistory[2]


\* C18: a submission whose text is empty or blank, or that is made while a request is
\* awaiting the oracle, dispatches no request and leaves messages, conversation
\* history, knowledge graph, visualization, drill flag, error and loading flag as
\* they are.
C18_RejectedInputChangesNothing ==
    [][\A text \in Texts :
          (/\ trim(text) = <<>> \/ Len(inflight) > 0
           /\ SendMessageRejected(text) \/ SendMessage(text, MaxTurns)) =>
              UNCHANGED <<inflight, messages, conversationHistory, knowledgeGraph,
                          whiteboardInstruction, microDrillActive, error,
                          isLoading>>]_vars


-----------------------------------------------------------------------------
(* Properties of persistence (SpecPersist) *)

\* C19: each transition that changes the knowledge graph (restore, applied record,
\* dismissal, reset) is followed by a write: when writes succeed the stored item
\* parses to the graph in memory; when they fail the item is left as it was (or
\* removed by the reset), no error is raised and the loading flag is not set, so the
\* session goes on from the graph in memory.
C19_PersistFollowsChange ==
    [][/\ (mounted' /\ ~quotaExceeded) =>
              (stored' # NULL /\ JSONparse(stored'[1]) = knowledgeGraph')
       /\ (knowledgeGraph' # knowledgeGraph /\ quotaExceeded) =>
              /\ stored' \in {stored, NULL}
              /\ error' \in {error, NULL}
              /\ isLoading' => isLoading]_vars

\* C19 witness: a graph was restored, a record was applied to it, the write failed and
\* the session is idle with the graph in memory ahead of the stored one
C19_Witness ==
    /\ mounted
    /\ quotaExceeded
    /\ ~isLoading
    /\ error = NULL
    /\ stored # NULL
    /\ JSONparse(stored[1]).sessionStats.totalAttempts = PersistPreload
    /\ knowledgeGraph.sessionStats.totalAttempts > PersistPreload

\* the topics that were mastered before the last operation
MasteredBefore == {t \in DOMAIN prev.topics : prev.topics[t].mastered}

\* C20 as stated: a topic that is mastered stays mastered through every later update
\* of that topic, whatever the answer, the delta or the flag.
C20_MasteryIsSticky ==
    (last.op = "apply" /\ LastTopic \in MasteredBefore) =>
        knowledgeGraph.topics[LastTopic].mastered

\* C20 amended: an update leaves the mastery of the other topics alone, and keeps
\* the updated topic mastered only when it carries the flag true, or carries no flag
\* and is a correct answer that leaves the score at 85 or more; any other update
\* clears the flag.
C20_MasteryKeptOnlyByUpdate ==
    last.op = "apply" =>
        \A t \in MasteredBefore :
            /\ t \in DOMAIN knowledgeGraph.topics
            /\ knowledgeGraph.topics[t].mastered <=>
                  \/ t # LastTopic
                  \/ LastUpdate.mastered = Some(TRUE)
                  \/ /\ LastUpdate.mastered = NULL
                     /\ last.payload.error_type = "None"
                     /\ knowledgeGraph.topics[t].confidenceScore >= MASTERY_SCORE

\* C20 witness: an incorrect answer without a flag has cleared the mastery of its topic
C20_Witness ==
    /\ last.op = "apply"
    /\ LastTopic \in MasteredBefore
    /\ LastUpdate.mastered = NULL
    /\ last.payload.error_type # "None"
    /\ ~knowledgeGraph.topics[LastTopic].mastered

\* the most recent 30 entries of the error history
ErrorWindow == sliceLast(knowledgeGraph.errorHistory, FREQ_WINDOW)

\* the number of entries of kind k in the window
WindowCount(k) == Cardinality({i \in 1..Len(ErrorWindow) : ErrorWindow[i].type = k})

\* the position at which kind k is first met in the window
FirstSeen(k) == CHOOSE i \in 1..Len(ErrorWindow) :
                    /\ ErrorWindow[i].type = k
                    /\ \A j \in 1..(i - 1) : ErrorWindow[j].type # k

WindowKinds == {ErrorWindow[i].type : i \in 1..Len(ErrorWindow)}

\* the kinds of the window with the highest count
MostFrequent == {k \in WindowKinds : \A o \in WindowKinds : WindowCount(o) <= WindowCount(k)}

\* C21: getDominantError returns the kind with the highest count in the last 30
\* entries when that count is at least 3, among equally frequent kinds the one met
\* first in the window, and nothing otherwise; it returns a kind exactly when
\* shouldTriggerMicroDrill holds of the same graph.
C21_DominantError ==
    LET d == getDominantError(knowledgeGraph)
    IN  /\ d # NULL <=> \E k \in WindowKinds : WindowCount(k) >= 3
        /\ d # NULL =>
              /\ d[1] \in MostFrequent
              /\ \A o \in MostFrequent : FirstSeen(d[1]) <= FirstSeen(o)
        /\ d # NULL <=> shouldTriggerMicroDrill(knowledgeGraph)

\* C21 witness: after an update, two kinds share the highest count of the window and
\* the dominant one is the one met first, which is not the kind recorded last
C21_Witness ==
    /\ last.op = "apply"
    /\ Cardinality(MostFrequent) >= 2
    /\ getDominantError(knowledgeGraph) # NULL
    /\ getDominantError(knowledgeGraph)[1] # ErrorWindow[Len(ErrorWindow)].type

\* C22: applying a record whose drill flag is true adds exactly 1 to
\* microDrillsCompleted, activates the drill and records the record's topic as the
\* drill topic; applying one whose flag is false leaves the count as it was; every
\* step that applies no record (a failed fetch, a dismissal, a rejected or an accepted
\* submission) leaves it too, so it decreases only at a reset. A record was applied
\* when the step appended the assistant's reply.
C22_DrillCounted ==
    [][LET count   == knowledgeGraph.sessionStats.microDrillsCompleted
           count1  == knowledgeGraph'.sessionStats.microDrillsCompleted
           reply   == messages'[Len(messages')]
           applied == Len(messages') = Len(messages) + 1 /\ reply.role = "assistant"
       IN  IF applied
           THEN IF reply.isMicroDrill[1]
                THEN /\ count1 = count + 1
                     /\ microDrillActive'
                     /\ microDrillTopic' = Some(knowledgeGraph'.sessionStats.currentTopic)
                ELSE count1 = count
           ELSE count1 = count \/ resetSession]_vars

\* C22 witness: two drill records were applied, the second to a session whose drill
\* was dismissed in between
C22_Witness ==
    /\ knowledgeGraph.sessionStats.microDrillsCompleted = 2
    /\ knowledgeGraph.sessionStats.totalAttempts = 2
    /\ microDrillActive
    /\ microDrillTopic = Some("limits")
    /\ knowledgeGraph.sessionStats.attemptOnCurrentProblem = 1

\* C23: dismissing the micro-drill deactivates the drill, clears the drill topic and
\* sets attemptOnCurrentProblem and consecutiveFailures to 0; it leaves the topics,
\* the weak nodes, the error history, totalAttempts, microDrillsCompleted,
\* currentTopic, the messages, the conversation history, the visualization, the
\* loading flag and the requests in flight as they were.
C23_DismissFrame ==
    [][dismissMicroDrill =>
          /\ ~microDrillActive'
          /\ microDrillTopic' = NULL
          /\ knowledgeGraph'.sessionStats.attemptOnCurrentProblem = 0
          /\ knowledgeGraph'.sessionStats.consecutiveFailures = 0
          /\ knowledgeGraph'.topics = knowledgeGraph.topics
          /\ knowledgeGraph'.weakNodes = knowledgeGraph.weakNodes
          /\ knowledgeGraph'.errorHistory = knowledgeGraph.errorHistory
          /\ knowledgeGraph'.sessionStats.totalAttempts
                = knowledgeGraph.sessionStats.totalAttempts
          /\ knowledgeGraph'.sessionStats.microDrillsCompleted
                = knowledgeGraph.sessionStats.microDrillsCompleted
          /\ knowledgeGraph'.sessionStats.currentTopic
                = knowledgeGraph.sessionStats.currentTopic
          /\ UNCHANGED <<messages, conversationHistory, whiteboardInstruction,
                         isLoading, inflight>>]_vars

\* C23 witness: a drill that was counted has been dismissed while the next request
\* is in flight: no drill topic, the counters at 0, the count and the history kept
C23_Witness ==
    /\ knowledgeGraph.sessionStats.microDrillsCompleted >= 1
    /\ Len(knowledgeGraph.errorHistory) >= 1
    /\ microDrillTopic = NULL
    /\ ~microDrillActive
    /\ knowledgeGraph.sessionStats.attemptOnCurrentProblem = 0
    /\ isLoading
    /\ Len(inflight) > 0

-----------------------------------------------------------------------------
(* Properties of the animators (SpecAnim) *)

\* C24: when the visualization is switched or removed, or the parameter its
\* animation depends on changes, the timer of the animator shown before is cleared
\* before a new one is set: every timer that runs is the one the mounted animator's
\* current effect set, there is at most one, and every callback that has run was
\* the one of the current effect.
C24_TimersCancelled ==
    /\ \A t \in timers :
          /\ animator.kind # "none"
          /\ t.inst = animator.inst
          /\ t.id = animator.effect
          /\ t.kind = animator.kind
    /\ Cardinality(timers) <= 1
    /\ ticked.current

\* C24 witness: the effect of a mounted animator was run again for a new parameter
\* after its first timer had ticked, and the new timer has ticked and written
C24_Witness ==
    /\ animator.kind # "none"
    /\ animator.effect > animator.inst
    /\ animator.value.phase \in {"moving", "rectangles"}
    /\ ticked.id = animator.effect
    /\ ticked.wrote
    /\ Cardinality(timers) = 1

\* the timer of the running integral animation, if it has not been cleared
IntegralTimers == {t \in timers : t.kind = "integral" /\ t.id = animator.effect}

\* C25: each time the integral animation starts, at the first display and at a
\* restart for new bounds, the rectangle count is 4 and then, one step per tick of
\* the timer, 8, 16, 32, 64 and smooth fill: the count is the entry of the schedule
\* that the ticks of the running timer have reached, and the timer is cleared only
\* once the fill is smooth.
C25_IntegralSchedule ==
    animator.kind = "integral" =>
        /\ \A t \in IntegralTimers :
              /\ t.i < Len(STEPS)
              /\ animator.value.n = STEPS[t.i + 1]
        /\ IntegralTimers = {} => animator.value.phase = "smooth"

-----------------------------------------------------------------------------
(* Properties of the whiteboard (Spec) *)

\* type VisualizationType
VisualizationType == {"limit", "derivative", "integral", "none"}

\* C26: the displayed visualization request always has one of the kinds limit,
\* derivative, integral, none; applying a record replaces it by the record's
\* instruction, or by the neutral default (kind none, placeholder text) when the
\* record has none; a failed fetch and a rejected submission leave it as it was.
C26_VisualizationValid ==
    [][/\ whiteboardInstruction'.visualization_type \in VisualizationType
       /\ \A i \in 1..MaxTurns, oracle \in OracleOutcomes :
              FetchSettles(i, oracle) =>
                  whiteboardInstruction' =
                      IF oracle.kind # "tool" THEN whiteboardInstruction
                      ELSE IF oracle.input[1].whiteboard_instruction # NULL
                           THEN oracle.input[1].whiteboard_instruction[1]
                           ELSE DEFAULT_WHITEBOARD
       /\ (\E text \in Texts : SendMessageRejected(text)) =>
              UNCHANGED whiteboardInstruction]_vars

-----------------------------------------------------------------------------
(* Properties of the store that relate its parts (SpecKG) *)

\* C27: in every state reached from the empty graph by applied records, drill
\* dismissals and resets, consecutiveFailures equals attemptOnCurrentProblem.
C27_CountersAgree ==
    knowledgeGraph.sessionStats.consecutiveFailures
        = knowledgeGraph.sessionStats.attemptOnCurrentProblem

\* C27 witness: a correct answer has set both counters back from 2 or more
C27_Witness ==
    /\ last.op = "apply"
    /\ last.payload.error_type = "None"
    /\ prev.sessionStats.consecutiveFailures >= 2
    /\ knowledgeGraph.sessionStats.attemptOnCurrentProblem = 0

-----------------------------------------------------------------------------
(* Progress of the session (SpecLive) *)

\* C28: when every dispatched request settles in the end, every accepted submission
\* is followed by a state in which the session is idle again (isLoading is false).
C28_EventuallyIdle == isLoading ~> ~isLoading

-----------------------------------------------------------------------------
(* Properties of the whole graph (SpecKG) *)

\* C29: in every state reached from the empty graph no topic is both marked mastered
\* in the topic map and present in the weak-node set, also after an update of another
\* topic that names it among its weak_nodes; and the weak-node set has no duplicates.
C29_MasteredNeverWeak ==
    LET weak == knowledgeGraph.weakNodes
    IN  /\ \A t \in DOMAIN knowledgeGraph.topics :
              knowledgeGraph.topics[t].mastered => t \notin Range(weak)
        /\ \A i, j \in 1..Len(weak) : weak[i] = weak[j] => i = j

\* the sum of attempts over the topics in S
RECURSIVE SumAttempts(_, _)
SumAttempts(topics, S) ==
    IF S = {} THEN 0
    ELSE LET t == CHOOSE x \in S : TRUE
         IN  topics[t].attempts + SumAttempts(topics, S \ {t})

\* C30: in every state reached from the empty graph totalAttempts is the sum of the
\* attempts of all topics and the number of records applied since the last reset (an
\* applied record adds 1, a reset sets it to 0, a dismissal leaves it), it is at least
\* the length of the error history, and every entry of the error history names a key
\* of the topic map.
C30_AttemptsAddUp ==
    LET total == knowledgeGraph.sessionStats.totalAttempts
        h     == knowledgeGraph.errorHistory
    IN  /\ total = SumAttempts(knowledgeGraph.topics, DOMAIN knowledgeGraph.topics)
        /\ last.op = "init" => total = now - 1
        /\ last.op = "apply" => total = prev.sessionStats.totalAttempts + 1
        /\ last.op = "dismiss" => total = prev.sessionStats.totalAttempts
        /\ last.op = "reset" => total = 0
        /\ total >= Len(h)
        /\ \A i \in 1..Len(h) : h[i].topic \in DOMAIN knowledgeGraph.topics

\* C30 witness: records applied to two topics, some of them correct answers
C30_Witness ==
    /\ last.op = "apply"
    /\ knowledgeGraph.sessionStats.totalAttempts > 1
    /\ Cardinality(DOMAIN knowledgeGraph.topics) = 2
    /\ \A t \in DOMAIN knowledgeGraph.topics : knowledgeGraph.topics[t].attempts > 0
    /\ Len(knowledgeGraph.errorHistory) > 0
    /\ Len(knowledgeGraph.errorHistory) < knowledgeGraph.sessionStats.totalAttempts

====
